---- MODULE Spec2Model ----
(***************************************************************************)
(* A model of the BeeBoo MCP server: the tool registry and dispatcher of   *)
(* src/src/tools.js, the protocol bridge of server.js                      *)
(* (src/unnamed/part_002) and the HTTP client of api.js                    *)
(* (src/unnamed/part_001).                                                 *)
(*                                                                         *)
(* JavaScript values are tagged records [t |-> tag, v |-> payload].  A     *)
(* string is a sequence of tokens.  A string the code reads character by   *)
(* character (a title, an id, a content, a query) has one token per        *)
(* character; a literal piece of a template of the source, a number put    *)
(* into a template and an enum value are one token each.  Concatenation,   *)
(* slicing, prefixes and lengths are then those of the source.  Emoji of   *)
(* the source are written as words in parentheses.                         *)
(***************************************************************************)
EXTENDS Integers, Sequences, FiniteSets, TLC

VARIABLES
  apiKey,   \* process.env.BEEBOO_API_KEY is set
  server,   \* "new" | "serving" | "exited"
  listed,   \* the names the current tools/list returns, else <<>>
  pc,       \* "idle" | "listed" | "inflight" | "returned": the current protocol call
  cur,      \* the current call: [name, args, via], via a callback or direct
  ran,      \* the current call's tool.handler was invoked
  req,      \* the current call's outbound HTTP request, or NoReq
  nreq,     \* HTTP requests opened over the behaviour
  ncall,    \* tools/call requests accepted over the behaviour
  ans,      \* how the current call's transport promise settled, or NoAns
  hres,     \* what executeTool gave the callback: a ToolResult or a thrown error
  resp,     \* the ProtocolResponse of the current call, or NoResp
  net,      \* the current request's connection: its phase, the resolve/reject
            \* calls made on its promise and those the promise took
  idem      \* one call singled out, and what its first occurrence sent and got

vars == <<apiKey, server, listed, pc, cur, ran, req, nreq, ncall, ans, hres, resp, net,
          idem>>

----------------------------------------------------------------------------
(* Bounds of the model *)

\* tools/call requests per behaviour
MaxCalls == 3
\* items in an array the backend answers with
MaxItems == 2
\* characters of a title given to the key derivation
MaxTitleLen == 4

----------------------------------------------------------------------------
(* JavaScript values *)

Undefined == [t |-> "undefined"]
JNull == [t |-> "null"]
JStr(s) == [t |-> "str", v |-> s]
JNum(n) == [t |-> "num", v |-> n]
JArr(a) == [t |-> "arr", v |-> a]
JObj(f) == [t |-> "obj", v |-> f]

IsNullish(x) == x.t \in {"undefined", "null"}

\* if (x), x || y, x ? a : b
Truthy(x) ==
  CASE x.t \in {"undefined", "null"} -> FALSE
    [] x.t = "str" -> x.v # <<>>
    [] x.t = "num" -> x.v # 0
    [] OTHER -> TRUE

\* x || y
Or(x, y) == IF Truthy(x) THEN x ELSE y

\* x?.k ; also x.k where x is known not to be null or undefined
Get(x, k) ==
  IF x.t = "obj" /\ k \in DOMAIN x.v THEN x.v[k] ELSE Undefined

RECURSIVE JoinSeq(_, _)
\* parts.join(sep) for parts a sequence of strings
JoinSeq(parts, sep) ==
  IF parts = <<>> THEN <<>>
  ELSE IF Len(parts) = 1 THEN parts[1]
  ELSE parts[1] \o sep \o JoinSeq(Tail(parts), sep)

RECURSIVE ToStr(_)
\* `${x}` and String(x)
ToStr(x) ==
  CASE x.t = "str" -> x.v
    [] x.t = "num" -> <<ToString(x.v)>>
    [] x.t = "null" -> <<"null">>
    [] x.t = "undefined" -> <<"undefined">>
    [] x.t = "arr" ->
         JoinSeq([i \in 1..Len(x.v) |->
                    IF IsNullish(x.v[i]) THEN <<>> ELSE ToStr(x.v[i])], <<",">>)
    [] OTHER -> <<"[object Object]">>

----------------------------------------------------------------------------
(* api.js: the HTTP client and the response envelope helpers *)

DEFAULT_API_URL == <<"https://beeboo-api-625726065149.us-central1.run.app">>

\* Object keys in the order the model serialises them
KeyOrder == <<"code", "message", "error", "data", "results", "id", "key", "title",
              "content", "status", "priority", "tags", "description",
              "decided_at", "decision_note">>

RECURSIVE JsonStringify(_)
\* JSON.stringify(x) for a value parsed from JSON
JsonStringify(x) ==
  CASE x.t = "str" -> <<"\"">> \o x.v \o <<"\"">>
    [] x.t = "num" -> <<ToString(x.v)>>
    [] x.t = "arr" ->
         <<"[">> \o JoinSeq([i \in 1..Len(x.v) |-> JsonStringify(x.v[i])], <<",">>)
                 \o <<"]">>
    [] x.t = "obj" ->
         LET ks == SelectSeq(KeyOrder, LAMBDA k : k \in DOMAIN x.v)
         IN  <<"{">> \o JoinSeq([i \in 1..Len(ks) |->
                                   <<"\"", ks[i], "\":">> \o JsonStringify(x.v[ks[i]])],
                                <<",">>)
                     \o <<"}">>
    [] OTHER -> <<"null">>

\* Check if response is OK (2xx)
isOk(res) == res.status >= 200 /\ res.status < 300

\* Extract data from standard { data: ... } response
getData(res) ==
  IF Get(res.data, "data") # Undefined THEN Get(res.data, "data") ELSE res.data

\* Extract error message from standard { error: { message: ... } } response
getError(res) ==
  LET err == Get(res.data, "error")
  IN  IF Truthy(Get(err, "message")) THEN Get(err, "message")
      ELSE IF Truthy(err)
             THEN (IF err.t = "str" THEN err ELSE JStr(JsonStringify(err)))
      ELSE IF res.data.t = "str" THEN res.data
      ELSE JStr(<<"HTTP ", ToString(res.status)>>)

NoReq == [method |-> "none"]

\* The query string parameters request() serialises: those of `query`, a sequence
\* of <<key, value>> pairs, whose value is not undefined, null or ''
QueryParams(query) ==
  LET kept == SelectSeq(query, LAMBDA kv : kv[2] # Undefined /\ kv[2] # JNull
                                           /\ kv[2] # JStr(<<>>))
  IN  [i \in 1..Len(kept) |-> <<kept[i][1], ToStr(kept[i][2])>>]

\* The HTTP request that request(method, path, body, query) opens
request(method, path, body, query) ==
  [method |-> method,
   url    |-> DEFAULT_API_URL \o path,
   params |-> QueryParams(query),
   body   |-> IF Truthy(body) THEN body ELSE JNull]

\* getConfig() throws inside the promise executor when the key is not set
ConfigErrorMessage == <<"BEEBOO_API_KEY environment variable is required">>
TimeoutMessage == <<"Request timed out (30s)">>
NetworkErrorMessage(m) == <<"Network error: ">> \o m

\* The api.* helpers handlers call
searchKnowledge(query, limit) ==
  request("POST", <<"/api/v1/knowledge/search">>,
          JObj([query |-> query, limit |-> JNum(limit)]), <<>>)
listKnowledgeEntries(query) ==
  request("GET", <<"/api/v1/knowledge/entries">>, JNull, query)
createKnowledgeEntry(entry) ==
  request("POST", <<"/api/v1/knowledge/entries">>, entry, <<>>)
submitApproval(data) ==
  request("POST", <<"/api/v1/approvals">>, data, <<>>)
\* A helper that drops the query it is given
listApprovalsNoQuery(query) ==
  request("GET", <<"/api/v1/approvals">>, JNull, <<>>)

listApprovals(query) ==
  request("GET", <<"/api/v1/approvals">>, JNull, query)
getApproval(id) ==
  request("GET", <<"/api/v1/approvals/">> \o ToStr(id), JNull, <<>>)
createRequest(data) ==
  request("POST", <<"/api/v1/requests">>, data, <<>>)
listRequests(query) ==
  request("GET", <<"/api/v1/requests">>, JNull, query)

----------------------------------------------------------------------------
(* tools.js: the registry *)

\* z.string(), z.enum([...]).optional(), z.array(z.string()).optional(), ...
ZString(p) == [name |-> p, kind |-> "string", optional |-> FALSE, values |-> {}]
ZOptString(p) == [name |-> p, kind |-> "string", optional |-> TRUE, values |-> {}]
ZOptEnum(p, vals) == [name |-> p, kind |-> "enum", optional |-> TRUE, values |-> vals]
ZOptArray(p) == [name |-> p, kind |-> "array", optional |-> TRUE, values |-> {}]

ApprovalStatuses == {<<"pending">>, <<"approved">>, <<"rejected">>}
RequestStatuses == {<<"open">>, <<"in_progress">>, <<"resolved">>}
Priorities == {<<"low">>, <<"medium">>, <<"high">>, <<"critical">>}

\* The keys of `tools`, in the order the object literal declares them
ToolKeys ==
  <<"beeboo_knowledge_search", "beeboo_knowledge_add", "beeboo_knowledge_list",
    "beeboo_approval_request", "beeboo_approval_check", "beeboo_approvals_list",
    "beeboo_request_create", "beeboo_requests_list">>

\* tools[name].inputSchema, its fields in declaration order
inputSchema(name) ==
  CASE name = "beeboo_knowledge_search" -> <<ZString("query")>>
    [] name = "beeboo_knowledge_add" ->
         <<ZString("title"), ZString("content"), ZOptArray("tags")>>
    [] name = "beeboo_knowledge_list" -> <<>>
    [] name = "beeboo_approval_request" -> <<ZString("title"), ZString("description")>>
    [] name = "beeboo_approval_check" -> <<ZString("id")>>
    [] name = "beeboo_approvals_list" -> <<ZOptEnum("status", ApprovalStatuses)>>
    [] name = "beeboo_request_create" ->
         <<ZString("title"), ZOptString("description"), ZOptEnum("priority", Priorities)>>
    [] name = "beeboo_requests_list" -> <<ZOptEnum("status", RequestStatuses)>>

\* args.k of a plain object of arguments: undefined when the key is absent
Arg(args, k) == IF k \in DOMAIN args THEN args[k] ELSE Undefined

\* A validation that takes an enum for a plain string
ZodAcceptsAnyString(p, v) ==
  IF v = Undefined THEN p.optional
  ELSE CASE p.kind \in {"string", "enum"} -> v.t = "str"
         [] p.kind = "array" ->
              v.t = "arr" /\ \A i \in 1..Len(v.v) : v.v[i].t = "str"

\* Whether zod accepts value v for parameter p
ZodAccepts(p, v) ==
  IF v = Undefined THEN p.optional
  ELSE CASE p.kind = "string" -> v.t = "str"
         [] p.kind = "enum" -> v.t = "str" /\ v.v \in p.values
         [] p.kind = "array" ->
              v.t = "arr" /\ \A i \in 1..Len(v.v) : v.v[i].t = "str"

\* The issues of z.object(schema).parse(args), in schema order
ZodIssues(schema, args) ==
  LET bad == SelectSeq(schema, LAMBDA p : ~ZodAccepts(p, Arg(args, p.name)))
  IN  [i \in 1..Len(bad) |->
         [path |-> bad[i].name,
          code |-> IF bad[i].kind = "enum" /\ Arg(args, bad[i].name).t = "str"
                     THEN "invalid_enum_value" ELSE "invalid_type"]]

\* ZodError.message: the issues, each with its code and the path of its field
ZodMessage(issues) ==
  <<"ZodError: ">> \o JoinSeq([i \in 1..Len(issues) |->
                                <<issues[i].code, " at ", issues[i].path>>], <<",">>)

\* schema.parse(args): the declared keys only, unknown keys stripped
ZodParsed(schema, args) ==
  [k \in {schema[i].name : i \in 1..Len(schema)} |-> Arg(args, k)]

Ok(text, data) == [k |-> "ok", text |-> text, data |-> data]
Throw(message) == [k |-> "throw", message |-> message]
NoRes == [k |-> "none"]

TypeErrorMessage == <<"TypeError">>

----------------------------------------------------------------------------
(* tools.js: the handlers.  Each handler is the request it awaits           *)
(* (<tool>_request) and what it does with the response (<tool>_format).     *)

\* Characters longer content is cut to in search results
TruncateAt == 200

UpperCase == <<"A", "B", "C", "D", "E", "F", "G", "H", "I", "J", "K", "L", "M",
               "N", "O", "P", "Q", "R", "S", "T", "U", "V", "W", "X", "Y", "Z">>
LowerCase == <<"a", "b", "c", "d", "e", "f", "g", "h", "i", "j", "k", "l", "m",
               "n", "o", "p", "q", "r", "s", "t", "u", "v", "w", "x", "y", "z">>
Digits == {"0", "1", "2", "3", "4", "5", "6", "7", "8", "9"}

\* c.toLowerCase() for one character
LowerChar(c) ==
  IF \E i \in 1..26 : UpperCase[i] = c
  THEN LowerCase[CHOOSE i \in 1..26 : UpperCase[i] = c]
  ELSE c

\* s.toLowerCase()
toLowerCase(s) == [i \in 1..Len(s) |-> LowerChar(s[i])]

\* c matches [a-z0-9]
IsSlugChar(c) == c \in Digits \/ \E i \in 1..26 : LowerCase[i] = c

\* s.replace(/[^a-z0-9]/g, '-'): every character on its own, runs not collapsed
ReplaceEach(s) == [i \in 1..Len(s) |-> IF IsSlugChar(s[i]) THEN s[i] ELSE "-"]

RECURSIVE ReplaceRuns(_)
\* s.replace(/[^a-z0-9]+/g, '-')
ReplaceRuns(s) ==
  IF s = <<>> THEN <<>>
  ELSE IF IsSlugChar(s[1]) THEN <<s[1]>> \o ReplaceRuns(Tail(s))
  ELSE IF Len(s) > 1 /\ ~IsSlugChar(s[2]) THEN ReplaceRuns(Tail(s))
  ELSE <<"-">> \o ReplaceRuns(Tail(s))

\* s.replace(/^-|-$/g, '')
TrimDashes(s) ==
  LET rest == IF s # <<>> /\ s[1] = "-" THEN Tail(s) ELSE s
  IN  IF rest # <<>> /\ rest[Len(rest)] = "-"
        THEN SubSeq(rest, 1, Len(rest) - 1) ELSE rest

\* The key knowledge_add derives from a title
SlugKey(title) == TrimDashes(ReplaceRuns(toLowerCase(title)))

\* x.slice(0, n) of a string or an array
Slice(x, n) == [t |-> x.t, v |-> SubSeq(x.v, 1, IF Len(x.v) < n THEN Len(x.v) ELSE n)]

\* e.title || e.key || '(untitled)'
TitleOf(e) == Or(Get(e, "title"), Or(Get(e, "key"), JStr(<<"(untitled)">>)))

\* e.id?.slice(0, 8) throws when id has no slice method
IdSliceThrows(e) == Get(e, "id").t \in {"num", "obj"}

\* e.id?.slice(0, 8) || '-'
ShortId(e) ==
  LET id == Get(e, "id")
  IN  IF IsNullish(id) THEN JStr(<<"--">>) ELSE Or(Slice(id, 8), JStr(<<"--">>))

(* beeboo_knowledge_search *)

knowledge_search_request(args) == searchKnowledge(args.query, 10)

\* A summary that also cuts content of exactly TruncateAt characters
SearchContentOffByOne(r) ==
  LET c == Get(r, "content")
  IN  IF ~Truthy(c) THEN <<>>
      ELSE IF c.t \in {"str", "arr"} /\ Len(c.v) >= TruncateAt
             THEN ToStr(Slice(c, TruncateAt)) \o <<"...">>
      ELSE ToStr(c)

\* The content of a result as the search summary shows it
SearchContent(r) ==
  LET c == Get(r, "content")
  IN  IF ~Truthy(c) THEN <<>>
      ELSE IF c.t \in {"str", "arr"} /\ Len(c.v) > TruncateAt
             THEN ToStr(Slice(c, TruncateAt)) \o <<"...">>
      ELSE ToStr(c)

\* A summary line numbered from 0
SearchLineZeroBased(i, r) ==
  <<ToString(i - 1), ". **">> \o ToStr(TitleOf(r)) \o <<"**">>
    \o (IF Truthy(Get(r, "id")) THEN <<" (">> \o ToStr(Get(r, "id")) \o <<")">> ELSE <<>>)
    \o <<"\n   ">> \o SearchContent(r)

\* The summary line of the i-th result
SearchLine(i, r) ==
  <<ToString(i), ". **">> \o ToStr(TitleOf(r)) \o <<"**">>
    \o (IF Truthy(Get(r, "id")) THEN <<" (">> \o ToStr(Get(r, "id")) \o <<")">> ELSE <<>>)
    \o <<"\n   ">> \o SearchContent(r)

knowledge_search_format(args, res) ==
  IF ~isOk(res) THEN Throw(<<"Search failed: ">> \o ToStr(getError(res)))
  ELSE
    LET data == getData(res)
        results == IF data.t = "arr" THEN data
                   ELSE Or(Get(data, "results"), JArr(<<>>))
    IN  IF results.t # "arr" THEN Throw(TypeErrorMessage)
        ELSE IF Len(results.v) = 0
          THEN Ok(<<"No results found for \"">> \o ToStr(args.query) \o <<"\"">>,
                  Undefined)
        ELSE IF \E i \in 1..Len(results.v) : IsNullish(results.v[i])
          THEN Throw(TypeErrorMessage)
        ELSE
          Ok(<<"Found ", ToString(Len(results.v)), " result(s) for \"">>
               \o ToStr(args.query) \o <<"\":\n\n">>
               \o JoinSeq([i \in 1..Len(results.v) |-> SearchLine(i, results.v[i])],
                          <<"\n\n">>),
             results)

(* beeboo_knowledge_add *)

knowledge_add_request(args) ==
  LET base == [title |-> args.title, content |-> args.content,
               namespace |-> JStr(<<"default">>), content_type |-> JStr(<<"text">>),
               key |-> JStr(SlugKey(args.title.v))]
      tags == args.tags
  IN  createKnowledgeEntry(
        JObj(IF Truthy(tags) /\ Len(tags.v) > 0
               THEN [k \in DOMAIN base \cup {"tags"} |->
                       IF k = "tags" THEN tags ELSE base[k]]
               ELSE base))

knowledge_add_format(args, res) ==
  IF ~isOk(res) THEN Throw(<<"Failed to create entry: ">> \o ToStr(getError(res)))
  ELSE
    LET data == getData(res)
    IN  Ok(<<"(ok) Knowledge entry created: \"">> \o ToStr(args.title) \o <<"\"">>
             \o (IF Truthy(Get(data, "id"))
                   THEN <<" (ID: ">> \o ToStr(Get(data, "id")) \o <<")">> ELSE <<>>),
           data)

(* beeboo_knowledge_list *)

knowledge_list_request(args) == listKnowledgeEntries(<<>>)

\* e.tags?.length ? ` [${e.tags.join(', ')}]` : '' throws for a non-empty string
TagsThrow(e) == Get(e, "tags").t = "str" /\ Get(e, "tags").v # <<>>

TagsOf(e) ==
  LET tags == Get(e, "tags")
  IN  IF tags.t = "arr" /\ Len(tags.v) > 0
        THEN <<" [">> \o JoinSeq([i \in 1..Len(tags.v) |->
                                   IF IsNullish(tags.v[i]) THEN <<>>
                                   ELSE ToStr(tags.v[i])], <<", ">>) \o <<"]">>
        ELSE <<>>

KnowledgeLine(i, e) ==
  <<ToString(i), ". ">> \o ToStr(TitleOf(e)) \o <<" (">> \o ToStr(ShortId(e)) \o <<")">>
    \o TagsOf(e)

\* An empty listing that returns its text alone
EmptyKnowledgeListNoData == Ok(<<"No knowledge entries found.">>, Undefined)

\* What knowledge_list returns when there are no items
EmptyKnowledgeList == Ok(<<"No knowledge entries found.">>, JArr(<<>>))

knowledge_list_format(args, res) ==
  IF ~isOk(res) THEN Throw(<<"Failed to list entries: ">> \o ToStr(getError(res)))
  ELSE
    LET entries == getData(res)
        items == IF entries.t = "arr" THEN entries ELSE JArr(<<>>)
    IN  IF Len(items.v) = 0 THEN EmptyKnowledgeList
        ELSE IF \E i \in 1..Len(items.v) :
                  \/ IsNullish(items.v[i])
                  \/ IdSliceThrows(items.v[i])
                  \/ TagsThrow(items.v[i])
          THEN Throw(TypeErrorMessage)
        ELSE
          Ok(<<"(books) ", ToString(Len(items.v)), " knowledge entries:\n\n">>
               \o JoinSeq([i \in 1..Len(items.v) |-> KnowledgeLine(i, items.v[i])],
                          <<"\n">>),
             items)

(* beeboo_approval_request *)

approval_request_request(args) ==
  submitApproval(JObj([title |-> args.title, description |-> args.description,
                       category |-> JStr(<<"general">>),
                       urgency |-> JStr(<<"normal">>)]))

approval_request_format(args, res) ==
  IF ~isOk(res) THEN Throw(<<"Failed to submit approval: ">> \o ToStr(getError(res)))
  ELSE
    LET result == getData(res)
    IN  Ok(<<"(wait) Approval requested: \"">> \o ToStr(args.title) \o <<"\"\nID: ">>
             \o ToStr(Or(Get(result, "id"), JStr(<<"unknown">>)))
             \o <<"\nStatus: pending\n\nWait for human approval before proceeding.">>,
           result)

(* beeboo_approval_check *)

approval_check_request(args) == getApproval(args.id)

\* The icon shown for an approval's status
ApprovalIcon(a) ==
  IF Get(a, "status") = JStr(<<"approved">>) THEN "(ok)"
  ELSE IF Get(a, "status") = JStr(<<"denied">>) THEN "(no)"
  ELSE "(wait)"

\* A check that ignores the status of a failed lookup
CheckFailureGeneric(args, res) ==
  Throw(<<"Failed to check approval: ">> \o ToStr(getError(res)))

\* What approval_check throws for a response that is not OK
CheckFailure(args, res) ==
  IF res.status = 404
    THEN Throw(<<"Approval not found: ">> \o ToStr(args.id))
    ELSE Throw(<<"Failed to check approval: ">> \o ToStr(getError(res)))

approval_check_format(args, res) ==
  IF ~isOk(res) THEN CheckFailure(args, res)
  ELSE
    LET approval == getData(res)
        Opt(label, k) == IF Truthy(Get(approval, k))
                           THEN <<label>> \o ToStr(Get(approval, k)) ELSE <<>>
    IN  IF IsNullish(approval) THEN Throw(TypeErrorMessage)
        ELSE
          Ok(<<ApprovalIcon(approval), " Approval: ">>
               \o ToStr(Or(Get(approval, "title"), args.id))
               \o <<"\nStatus: ">>
               \o ToStr(Or(Get(approval, "status"), JStr(<<"pending">>)))
               \o Opt("\nDescription: ", "description")
               \o Opt("\nDecided: ", "decided_at")
               \o Opt("\nNote: ", "decision_note"),
             approval)

(* beeboo_approvals_list *)

\* A filter kept in a flag the first request clears
StatusQueryOnce(status) ==
  IF nreq = 0 /\ Truthy(status) THEN << <<"status", status>> >> ELSE <<>>

\* status ? { status } : {}
StatusQuery(status) == IF Truthy(status) THEN << <<"status", status>> >> ELSE <<>>

\* status ? ` with status "${status}"` : ''
FilterText(status) ==
  IF Truthy(status) THEN <<" with status \"">> \o ToStr(status) \o <<"\"">> ELSE <<>>

approvals_list_request(args) == listApprovals(StatusQuery(args.status))

ApprovalLine(i, a) ==
  <<ToString(i), ". ", ApprovalIcon(a), " ">>
    \o ToStr(Or(Get(a, "title"), JStr(<<"(untitled)">>)))
    \o <<" (">> \o ToStr(ShortId(a)) \o <<") - ">>
    \o ToStr(Or(Get(a, "status"), JStr(<<"pending">>)))

approvals_list_format(args, res) ==
  IF ~isOk(res) THEN Throw(<<"Failed to list approvals: ">> \o ToStr(getError(res)))
  ELSE
    LET approvals == getData(res)
        items == IF approvals.t = "arr" THEN approvals ELSE JArr(<<>>)
    IN  IF Len(items.v) = 0
          THEN Ok(<<"No approvals found">> \o FilterText(args.status) \o <<".">>,
                  JArr(<<>>))
        ELSE IF \E i \in 1..Len(items.v) :
                  IsNullish(items.v[i]) \/ IdSliceThrows(items.v[i])
          THEN Throw(TypeErrorMessage)
        ELSE
          Ok(<<"(list) ", ToString(Len(items.v)), " approval(s):\n\n">>
               \o JoinSeq([i \in 1..Len(items.v) |-> ApprovalLine(i, items.v[i])],
                          <<"\n">>),
             items)

(* beeboo_request_create *)

\* priority || 'medium'
PriorityOf(args) == Or(args.priority, JStr(<<"medium">>))

request_create_request(args) ==
  createRequest(JObj([title |-> args.title,
                      description |-> Or(args.description, JStr(<<>>)),
                      priority |-> PriorityOf(args)]))

request_create_format(args, res) ==
  IF ~isOk(res) THEN Throw(<<"Failed to create request: ">> \o ToStr(getError(res)))
  ELSE
    LET result == getData(res)
    IN  Ok(<<"(list) Work request created: \"">> \o ToStr(args.title) \o <<"\"\nID: ">>
             \o ToStr(Or(Get(result, "id"), JStr(<<"unknown">>)))
             \o <<"\nPriority: ">> \o ToStr(PriorityOf(args)),
           result)

(* beeboo_requests_list *)

requests_list_request(args) == listRequests(StatusQuery(args.status))

RequestIcon(r) ==
  IF Get(r, "status") = JStr(<<"resolved">>) THEN "(ok)"
  ELSE IF Get(r, "status") = JStr(<<"in_progress">>) THEN "(cycle)"
  ELSE "(list)"

PriorityBadge(r) ==
  IF Get(r, "priority") = JStr(<<"critical">>) THEN "(red)"
  ELSE IF Get(r, "priority") = JStr(<<"high">>) THEN "(orange)"
  ELSE IF Get(r, "priority") = JStr(<<"low">>) THEN "(white)"
  ELSE "(yellow)"

RequestLine(i, r) ==
  <<ToString(i), ". ", RequestIcon(r), " ", PriorityBadge(r), " ">>
    \o ToStr(Or(Get(r, "title"), JStr(<<"(untitled)">>)))
    \o <<" (">> \o ToStr(ShortId(r)) \o <<")">>

requests_list_format(args, res) ==
  IF ~isOk(res) THEN Throw(<<"Failed to list requests: ">> \o ToStr(getError(res)))
  ELSE
    LET requests == getData(res)
        items == IF requests.t = "arr" THEN requests ELSE JArr(<<>>)
    IN  IF Len(items.v) = 0
          THEN Ok(<<"No work requests found">> \o FilterText(args.status) \o <<".">>,
                  JArr(<<>>))
        ELSE IF \E i \in 1..Len(items.v) :
                  IsNullish(items.v[i]) \/ IdSliceThrows(items.v[i])
          THEN Throw(TypeErrorMessage)
        ELSE
          Ok(<<"(list) ", ToString(Len(items.v)), " work request(s):\n\n">>
               \o JoinSeq([i \in 1..Len(items.v) |-> RequestLine(i, items.v[i])],
                          <<"\n">>),
             items)

\* tools[name].handler up to its await: the request it sends
HandlerRequest(name, args) ==
  CASE name = "beeboo_knowledge_search" -> knowledge_search_request(args)
    [] name = "beeboo_knowledge_add" -> knowledge_add_request(args)
    [] name = "beeboo_knowledge_list" -> knowledge_list_request(args)
    [] name = "beeboo_approval_request" -> approval_request_request(args)
    [] name = "beeboo_approval_check" -> approval_check_request(args)
    [] name = "beeboo_approvals_list" -> approvals_list_request(args)
    [] name = "beeboo_request_create" -> request_create_request(args)
    [] name = "beeboo_requests_list" -> requests_list_request(args)

\* tools[name].handler after its await: the ToolResult or the error thrown
HandlerFormat(name, args, res) ==
  CASE name = "beeboo_knowledge_search" -> knowledge_search_format(args, res)
    [] name = "beeboo_knowledge_add" -> knowledge_add_format(args, res)
    [] name = "beeboo_knowledge_list" -> knowledge_list_format(args, res)
    [] name = "beeboo_approval_request" -> approval_request_format(args, res)
    [] name = "beeboo_approval_check" -> approval_check_format(args, res)
    [] name = "beeboo_approvals_list" -> approvals_list_format(args, res)
    [] name = "beeboo_request_create" -> request_create_format(args, res)
    [] name = "beeboo_requests_list" -> requests_list_format(args, res)

----------------------------------------------------------------------------
(* tools.js: executeTool *)

\* Property names every object literal inherits from Object.prototype
InheritedKeys == {"constructor", "toString", "valueOf", "hasOwnProperty", "__proto__"}

\* tools[name] is truthy
HasTool(name) ==
  (\E i \in 1..Len(ToolKeys) : ToolKeys[i] = name) \/ name \in InheritedKeys

\* executeTool(name, args) up to the handler: the error it throws, or the
\* validated arguments it invokes the handler with
ExecuteStart(name, args) ==
  IF ~HasTool(name) THEN Throw(<<"Unknown tool: ", name>>)
  ELSE IF name \in InheritedKeys THEN Throw(TypeErrorMessage)
  ELSE
    LET issues == ZodIssues(inputSchema(name), args)
    IN  IF issues # <<>> THEN Throw(ZodMessage(issues))
        ELSE [k |-> "invoke", args |-> ZodParsed(inputSchema(name), args)]

----------------------------------------------------------------------------
(* server.js: the protocol bridge *)

\* One server.registerTool(name, ..., callback): the fields the callback takes
\* from its arguments, the tool it executes, and the key it puts the data under
Registration(name, keys, target, wrap) ==
  [name |-> name, keys |-> keys, target |-> target, wrap |-> wrap]

\* The registerTool calls for the knowledge base tools
RegisteredKnowledge ==
  <<Registration("beeboo_knowledge_search", {"query"},
                 "beeboo_knowledge_search", "results"),
    Registration("beeboo_knowledge_add", {"title", "content", "tags"},
                 "beeboo_knowledge_add", ""),
    Registration("beeboo_knowledge_list", {}, "beeboo_knowledge_list", "entries")>>

\* The registerTool calls for the approval tools
RegisteredApprovals ==
  <<Registration("beeboo_approval_request", {"title", "description"},
                 "beeboo_approval_request", ""),
    Registration("beeboo_approval_check", {"id"}, "beeboo_approval_check", ""),
    Registration("beeboo_approvals_list", {"status"},
                 "beeboo_approvals_list", "approvals")>>

\* The registerTool calls for the work request tools
RegisteredRequests ==
  <<Registration("beeboo_request_create", {"title", "description", "priority"},
                 "beeboo_request_create", ""),
    Registration("beeboo_requests_list", {"status"},
                 "beeboo_requests_list", "requests")>>

\* A registerTools that registers no work request tool
RegisteredWithoutRequests == RegisteredKnowledge \o RegisteredApprovals

\* registerTools, in the order of its registerTool calls
Registered == RegisteredKnowledge \o RegisteredApprovals \o RegisteredRequests

RegisteredNames == {Registered[i].name : i \in 1..Len(Registered)}
RegistrationOf(name) ==
  Registered[CHOOSE i \in 1..Len(Registered) : Registered[i].name = name]

\* A callback whose destructuring defaults every missing field to ''
CallbackArgsDefaulting(name, raw) ==
  [k \in RegistrationOf(name).keys |->
     IF Arg(raw, k) = Undefined THEN JStr(<<>>) ELSE Arg(raw, k)]

\* async ({ a, b }) => executeTool(target, { a, b }): the object the callback builds
CallbackArgs(name, raw) == [k \in RegistrationOf(name).keys |-> Arg(raw, k)]

\* Callbacks that all return result.data as it is
StructuredContentPlain(name, result) == result.data

\* The structuredContent a callback returns for a ToolResult
StructuredContent(name, result) ==
  LET wrap == RegistrationOf(name).wrap
  IN  IF wrap = "" THEN result.data
      ELSE IF wrap = "results"
        THEN (IF Truthy(result.data) THEN JObj([results |-> result.data])
              ELSE Undefined)
      ELSE JObj([k \in {wrap} |-> result.data])

TextBlock(text) == [type |-> "text", text |-> text]

\* The try branch of a callback
WrapResult(name, result) ==
  [content |-> <<TextBlock(result.text)>>,
   structuredContent |-> StructuredContent(name, result)]

\* A catch branch that forgets the error flag
WrapErrorUnflagged(message) ==
  [content |-> <<TextBlock(<<"Error: ">> \o message)>>]

\* The catch branch of a callback
WrapError(message) ==
  [content |-> <<TextBlock(<<"Error: ">> \o message)>>, isError |-> TRUE]

\* What a callback returns for what executeTool gave it
Respond(name, outcome) ==
  IF outcome.k = "ok" THEN WrapResult(name, outcome) ELSE WrapError(outcome.message)

NoResp == [content |-> <<>>]
NoAns == [k |-> "none"]
NoCall == [name |-> "none", args |-> [k \in {} |-> Undefined], via |-> "none"]

----------------------------------------------------------------------------
(* The environment: what a protocol client sends and what the backend answers *)

\* A string of n characters whose first and last differ from the rest
Content(n) == [i \in 1..n |-> IF i = 1 THEN "a" ELSE IF i = n THEN "z" ELSE "x"]

RECURSIVE SeqsUpTo(_, _)
\* The sequences over S of length at most n
SeqsUpTo(S, n) ==
  IF n = 0 THEN {<<>>}
  ELSE LET shorter == SeqsUpTo(S, n - 1)
       IN  shorter \cup {Append(q, x) : q \in {r \in shorter : Len(r) = n - 1}, x \in S}

OptionalOf(S) == {Undefined} \cup S
Query1 == JStr(<<"d", "e", "p">>)
Title1 == JStr(<<"H", "i", "!">>)
Text1 == JStr(<<"c">>)
Id1 == JStr(<<"a", "b", "c", "1", "2", "3">>)
LongId == JStr(<<"0", "1", "2", "3", "4", "5", "6", "7", "8", "9">>)

\* The arguments of a tools/call, per tool: valid ones, and ones that omit a
\* required field, give a value of the wrong type or an undeclared enum value
ArgSets(name) ==
  CASE name = "beeboo_knowledge_search" ->
         {[query |-> q] : q \in {Undefined, Query1, JStr(<<>>), JNum(1)}}
    [] name = "beeboo_knowledge_add" ->
         {[title |-> t, content |-> c, tags |-> g] :
            t \in OptionalOf({Title1}), c \in OptionalOf({Text1}),
            g \in OptionalOf({JArr(<<>>), JArr(<<JStr(<<"t">>), JStr(<<"u">>)>>),
                              JStr(<<"t">>)})}
    [] name = "beeboo_knowledge_list" -> {[k \in {} |-> Undefined], [extra |-> JNum(1)]}
    [] name = "beeboo_approval_request" ->
         {[title |-> t, description |-> d] :
            t \in OptionalOf({Title1}), d \in OptionalOf({Text1})}
    [] name = "beeboo_approval_check" ->
         {[id |-> i] : i \in {Undefined, Id1, JNum(7)}}
    [] name = "beeboo_approvals_list" ->
         {[status |-> st] :
            st \in OptionalOf({JStr(v) : v \in ApprovalStatuses \cup {<<>>, <<"denied">>}})}
    [] name = "beeboo_request_create" ->
         {[title |-> t, description |-> d, priority |-> pr] :
            t \in OptionalOf({Title1}), d \in OptionalOf({Text1}),
            pr \in OptionalOf({JStr(v) : v \in Priorities \cup {<<"urgent">>}})}
    [] name = "beeboo_requests_list" ->
         {[status |-> st] :
            st \in OptionalOf({JStr(v) : v \in RequestStatuses \cup {<<>>, <<"pending">>}})}

\* Bodies any endpoint may answer with, as parsed JSON
CommonValues ==
  {JNull, JNum(5), JObj([data |-> JNull]), JArr(<<>>), JObj([data |-> JArr(<<>>)]),
   JObj([error |-> JObj([message |-> JStr(<<"m", "s", "g">>)])]),
   JObj([error |-> JObj([message |-> JStr(<<>>)])]),
   JObj([error |-> JObj([code |-> JNum(7)])]),
   JObj([error |-> JStr(<<"e", "r", "r">>)]),
   JObj([id |-> LongId]),
   JObj([data |-> JObj([id |-> Id1])]),
   JObj([results |-> JStr(<<"r">>)])}

\* Bodies that are not JSON: the raw text
RawTexts == {<<>>, <<"o", "o", "p", "s">>}

SearchItems ==
  {JObj([id |-> Id1, title |-> Title1, content |-> JStr(Content(TruncateAt + 1))]),
   JObj([key |-> JStr(<<"k">>), content |-> JStr(Content(TruncateAt))]),
   JObj([title |-> JStr(<<"T">>), content |-> JStr(Content(TruncateAt - 1))]),
   JObj([id |-> JNum(7), content |-> JStr(Content(TruncateAt + 3))]),
   JObj([title |-> JStr(<<"U">>)]),
   JNull}

KnowledgeItems ==
  {JObj([id |-> LongId, title |-> Title1, tags |-> JArr(<<JStr(<<"t">>), JStr(<<"u">>)>>)]),
   JObj([id |-> Id1, key |-> JStr(<<"k">>), tags |-> JArr(<<>>)]),
   JObj([id |-> JNum(7), title |-> JStr(<<"T">>)]),
   JObj([title |-> JStr(<<"T">>), tags |-> JStr(<<"t">>)]),
   JNull}

ApprovalItems ==
  {JObj([id |-> LongId, title |-> Title1, status |-> JStr(<<"approved">>),
         decided_at |-> JStr(<<"2", "0">>), decision_note |-> JStr(<<"o", "k">>)]),
   JObj([id |-> Id1, status |-> JStr(<<"rejected">>), description |-> Text1]),
   JObj([id |-> Id1, title |-> JStr(<<"T">>), status |-> JStr(<<"denied">>)]),
   JObj([title |-> JStr(<<"T">>), status |-> JStr(<<"pending">>)]),
   JObj([id |-> Id1])}

RequestItems ==
  {JObj([id |-> LongId, title |-> Title1, status |-> JStr(<<"resolved">>),
         priority |-> JStr(<<"critical">>)]),
   JObj([id |-> Id1, status |-> JStr(<<"in_progress">>), priority |-> JStr(<<"high">>)]),
   JObj([id |-> Id1, title |-> JStr(<<"T">>), status |-> JStr(<<"open">>),
         priority |-> JStr(<<"low">>)]),
   JObj([title |-> JStr(<<"T">>)])}

ItemsOf(name) ==
  CASE name \in {"beeboo_knowledge_search"} -> SearchItems
    [] name \in {"beeboo_knowledge_list", "beeboo_knowledge_add"} -> KnowledgeItems
    [] name \in {"beeboo_approval_request", "beeboo_approval_check",
                 "beeboo_approvals_list"} -> ApprovalItems
    [] OTHER -> RequestItems

\* The payloads the endpoint a tool calls may answer with: one item, or a list
PayloadsOf(name) ==
  ItemsOf(name) \cup {JArr(a) : a \in SeqsUpTo(ItemsOf(name), MaxItems)}

\* The values a 200 answer to a tool's request may carry: a payload, bare or
\* wrapped in { data: ... } or { results: ... }
ValuesOf(name) ==
  PayloadsOf(name) \cup {JObj([data |-> x]) : x \in PayloadsOf(name)}
    \cup (IF name = "beeboo_knowledge_search"
            THEN {JObj([results |-> x]) : x \in PayloadsOf(name)} ELSE {})

Statuses == {199, 200, 299, 300, 404, 500}

\* A response that ended: its status code and its body, which is JSON text of a
\* value or some other text
Answer(status, json, v) == [status |-> status, json |-> json, v |-> v]

AnswersOf(name) ==
  {Answer(st, TRUE, v) : st \in Statuses, v \in CommonValues}
    \cup {Answer(st, FALSE, JStr(t)) : st \in Statuses, t \in RawTexts}
    \cup {Answer(200, TRUE, v) : v \in ValuesOf(name)}

ErrorTexts == {<<"ECONNREFUSED">>}

----------------------------------------------------------------------------
(* The state machine *)

NoNet == [phase |-> "none", calls |-> 0, taken |-> 0]
\* No call is singled out and its requests are answered freely
NoProbe ==
  [probe |-> NoCall, req |-> NoReq, settled |-> NoAns, first |-> NoResp, seen |-> 0,
   others |-> FALSE]

\* The state after the module is loaded, before startServer() or createServer()
Boot ==
  /\ apiKey \in BOOLEAN
  /\ server = "new"
  /\ listed = <<>>
  /\ pc = "idle"
  /\ cur = NoCall
  /\ ran = FALSE
  /\ req = NoReq
  /\ nreq = 0
  /\ ncall = 0
  /\ ans = NoAns
  /\ hres = NoRes
  /\ resp = NoResp
  /\ net = NoNet

Init == Boot /\ idem = NoProbe

\* startServer(): exits when the key is not set, else creates and connects the server
StartServer ==
  /\ server = "new"
  /\ server' = IF apiKey THEN "serving" ELSE "exited"
  /\ UNCHANGED <<apiKey, listed, pc, cur, ran, req, nreq, ncall, ans, hres, resp, net, idem>>

\* createServer(), exported: a host that connects the server itself
CreateServer ==
  /\ server = "new"
  /\ server' = "serving"
  /\ UNCHANGED <<apiKey, listed, pc, cur, ran, req, nreq, ncall, ans, hres, resp, net, idem>>

\* tools/list: the names registered with the server, in registration order
ListTools ==
  /\ server = "serving"
  /\ pc = "idle"
  /\ listed' = [i \in 1..Len(Registered) |-> Registered[i].name]
  /\ pc' = "listed"
  /\ UNCHANGED <<apiKey, server, cur, ran, req, nreq, ncall, ans, hres, resp, net, idem>>

\* The registry key and the arguments executeTool is handed: a callback passes
\* its own tool's key and the fields it destructured, a direct caller its own
TargetOf(via, name) == IF via = "callback" THEN RegistrationOf(name).target ELSE name
PassedOf(via, name, raw) == IF via = "callback" THEN CallbackArgs(name, raw) ELSE raw

\* What comes of what executeTool gave its caller: a callback wraps it into a
\* protocol response, a direct caller holds the result or the exception itself
Returned(via, name, outcome) == IF via = "callback" THEN Respond(name, outcome) ELSE NoResp

\* The arguments the current call's handler was invoked with
Validated == ExecuteStart(TargetOf(cur.via, cur.name),
                          PassedOf(cur.via, cur.name, cur.args)).args

\* A getConfig() that supplies an empty key instead of throwing
getConfigLenient == FALSE

\* getConfig() throws when BEEBOO_API_KEY is not set
getConfigThrows == ~apiKey

\* executeTool(name, args) up to the handler's await: the lookup, the
\* validation, and the handler's transport call up to req.end()
Execute(via, name, raw) ==
  /\ pc = "idle"
  /\ ncall < MaxCalls
  /\ ncall' = ncall + 1
  /\ cur' = [name |-> name, args |-> raw, via |-> via]
  /\ ans' = NoAns
  /\ LET start == ExecuteStart(TargetOf(via, name), PassedOf(via, name, raw))
     IN  IF start.k = "throw"
           THEN /\ ran' = FALSE
                /\ hres' = start
                /\ resp' = Returned(via, name, start)
                /\ pc' = "returned"
                /\ UNCHANGED <<req, nreq, net>>
         ELSE IF getConfigThrows
           THEN /\ ran' = TRUE
                /\ hres' = Throw(ConfigErrorMessage)
                /\ resp' = Returned(via, name, Throw(ConfigErrorMessage))
                /\ pc' = "returned"
                /\ UNCHANGED <<req, nreq, net>>
         ELSE /\ ran' = TRUE
              /\ req' = HandlerRequest(TargetOf(via, name), start.args)
              /\ nreq' = nreq + 1
              /\ net' = [phase |-> "sent", calls |-> 0, taken |-> 0]
              /\ pc' = "inflight"
              /\ UNCHANGED <<hres, resp>>
  /\ UNCHANGED <<apiKey, server, listed, idem>>

\* tools/call: the server runs the callback registered under the name
CallTool(name, raw) ==
  /\ server = "serving"
  /\ Execute("callback", name, raw)

\* JSON.parse(data), or data itself when it is not JSON: an answer holds the
\* value its JSON text parses to, or its text as a string
ParseBody(answer) == answer.v

\* A settlement that takes every resolve() and reject(), the last one winning
SettlesAlways == TRUE

\* A promise takes the first resolve() or reject() and ignores the later ones:
\* the handler's await continues while the call is still in flight only
Settles == pc = "inflight"

\* The current call is the call singled out
IsProbe == cur.name = idem.probe.name /\ cur.args = idem.probe.args

\* The call singled out has returned: its first request, how the backend
\* settled it and the response it gave are kept, later ones are counted
Recorded(settled, response) ==
  IF ~IsProbe THEN [idem EXCEPT !.others = (idem.seen = 1) \/ idem.others]
  ELSE IF idem.seen = 0
         THEN [idem EXCEPT !.req = req, !.settled = settled, !.first = response, !.seen = 1]
  ELSE [idem EXCEPT !.seen = 2]

\* resolve() or reject() is called, leaving the connection in a phase: what the
\* handler and the callback do once the transport promise has settled
Settle(settled, outcome, phase) ==
  /\ net' = [phase |-> phase, calls |-> net.calls + 1,
             taken |-> IF Settles THEN net.taken + 1 ELSE net.taken]
  /\ IF Settles
       THEN /\ ans' = settled
            /\ hres' = outcome
            /\ resp' = Returned(cur.via, cur.name, outcome)
            /\ pc' = "returned"
            /\ idem' = Recorded(settled, Returned(cur.via, cur.name, outcome))
       ELSE UNCHANGED <<ans, hres, resp, pc, idem>>
  /\ UNCHANGED <<apiKey, server, listed, cur, ran, req, nreq, ncall>>

\* The response callback: the status line and headers arrived, the listeners
\* for 'data' and 'end' are attached
ResponseHeaders ==
  /\ pc = "inflight"
  /\ net.phase = "sent"
  /\ net' = [net EXCEPT !.phase = "headers"]
  /\ UNCHANGED <<apiKey, server, listed, pc, cur, ran, req, nreq, ncall, ans, hres, resp, idem>>

\* res 'end': the promise resolves with {status, data, raw}
ResponseEnd(answer) ==
  /\ net.phase = "headers"
  /\ Settle([k |-> "response", status |-> answer.status, data |-> ParseBody(answer)],
            HandlerFormat(TargetOf(cur.via, cur.name), Validated,
                          [status |-> answer.status, data |-> ParseBody(answer)]),
            "ended")

\* A req 'error' listener that opens the request again
RequestErrorRetry(m) ==
  /\ net.phase \in {"sent", "headers"}
  /\ nreq < MaxCalls + 1
  /\ nreq' = nreq + 1
  /\ net' = [net EXCEPT !.phase = "sent"]
  /\ UNCHANGED <<apiKey, server, listed, pc, cur, ran, req, ncall, ans, hres, resp, idem>>

\* req 'error': the promise rejects with a network error
RequestError(m) ==
  /\ net.phase \in {"sent", "headers"}
  /\ Settle([k |-> "error", message |-> m], Throw(NetworkErrorMessage(m)), "failed")

\* req 'timeout': the request is destroyed and the promise rejects. Destroying
\* a request that has no response yet raises its 'error' event later; one whose
\* response has begun aborts the response instead
RequestTimeout ==
  /\ net.phase \in {"sent", "headers"}
  /\ Settle([k |-> "timeout"], Throw(TimeoutMessage),
            IF net.phase = "sent" THEN "destroyed" ELSE "closed")

\* The message of the error a destroyed request raises
HangUp == <<"socket hang up">>

\* req 'error' after req.destroy(): reject() is called a second time
DestroyError ==
  /\ net.phase = "destroyed"
  /\ Settle([k |-> "error", message |-> HangUp], Throw(NetworkErrorMessage(HangUp)),
            "closed")

\* The connection closes after the headers and before the end of the body: the
\* response raises 'aborted' and 'close', which have no listener, and no 'end';
\* the request raises no 'error' and, its socket gone, no 'timeout'
BodyCutOff ==
  /\ pc = "inflight"
  /\ net.phase = "headers"
  /\ net' = [net EXCEPT !.phase = "closed"]
  /\ UNCHANGED <<apiKey, server, listed, pc, cur, ran, req, nreq, ncall, ans, hres, resp, idem>>

\* The callback's promise resolves and the response leaves the server
Deliver ==
  /\ pc \in {"returned", "listed"}
  /\ pc' = "idle"
  /\ listed' = <<>>
  /\ cur' = NoCall
  /\ ran' = FALSE
  /\ req' = NoReq
  /\ ans' = NoAns
  /\ hres' = NoRes
  /\ resp' = NoResp
  /\ net' = NoNet
  /\ UNCHANGED <<apiKey, server, nreq, ncall, idem>>

\* A protocol client calls some tool with some arguments
ClientCall ==
  /\ pc = "idle"
  /\ \E name \in RegisteredNames : \E raw \in ArgSets(name) : CallTool(name, raw)

\* The backend answers the request in flight
BackendAnswers ==
  /\ pc = "inflight"
  /\ net.phase = "headers"
  /\ \E answer \in AnswersOf(cur.name) : ResponseEnd(answer)

\* The connection of the request in flight fails
ConnectionFails ==
  /\ pc = "inflight"
  /\ \E m \in ErrorTexts : RequestError(m)

Next ==
  \/ StartServer
  \/ CreateServer
  \/ ListTools
  \/ ClientCall
  \/ ResponseHeaders
  \/ BackendAnswers
  \/ ConnectionFails
  \/ RequestTimeout
  \/ DestroyError
  \/ BodyCutOff
  \/ Deliver

Spec == Init /\ [][Next]_vars

----------------------------------------------------------------------------
(* Properties *)

ToolKeySet == {ToolKeys[i] : i \in 1..Len(ToolKeys)}

\* C1: the names tools/list advertises are exactly the keys of the registry:
\* 8 names, none repeated, none that is not a key, no key that is missing, and
\* each one a name executeTool resolves to a declared tool.
C1_ListMatchesRegistry ==
  pc = "listed" =>
    /\ Len(listed) = 8
    /\ Cardinality(ToolKeySet) = 8
    /\ Cardinality({listed[i] : i \in 1..Len(listed)}) = Len(listed)
    /\ {listed[i] : i \in 1..Len(listed)} = ToolKeySet
    /\ \A i \in 1..Len(listed) :
         /\ HasTool(RegistrationOf(listed[i]).target)
         /\ RegistrationOf(listed[i]).target \in ToolKeySet

C1_Witness == pc = "listed" /\ Len(listed) = 8

\* The required parameters of the current call that its arguments omit
MissingRequired ==
  IF cur.name \in ToolKeySet
    THEN {i \in 1..Len(inputSchema(cur.name)) :
            /\ ~inputSchema(cur.name)[i].optional
            /\ Arg(cur.args, inputSchema(cur.name)[i].name) = Undefined}
    ELSE {}

IsErrorResponse(r) == "isError" \in DOMAIN r /\ r.isError = TRUE

\* C2: a tools/call that omits a required parameter never invokes the handler
\* and never opens an HTTP request, and it ends in a response with isError true.
C2_MissingRequiredIsError ==
  MissingRequired # {} =>
    /\ pc \in {"returned"}
    /\ ~ran
    /\ req = NoReq
    /\ IsErrorResponse(resp)

C2_Witness ==
  /\ pc = "returned" /\ MissingRequired # {} /\ IsErrorResponse(resp)
  /\ cur.name = "beeboo_request_create"

\* The enum parameters of the current call given a value outside their set
EnumOutside ==
  IF cur.name \in ToolKeySet
    THEN {i \in 1..Len(inputSchema(cur.name)) :
            LET p == inputSchema(cur.name)[i]
                v == Arg(cur.args, p.name)
            IN  /\ p.kind = "enum"
                /\ v # Undefined
                /\ ~(v.t = "str" /\ v.v \in p.values)}
    ELSE {}

\* C3: a call that gives an enum parameter a value outside its declared set
\* fails validation: the handler is not invoked and no HTTP request is opened.
C3_EnumOutsideFailsValidation ==
  EnumOutside # {} =>
    /\ pc = "returned"
    /\ ~ran
    /\ req = NoReq
    /\ hres.k = "throw"
    /\ hres.message[1] = "ZodError: "
    /\ \A i \in EnumOutside :
         \E j \in 1..Len(hres.message) :
           hres.message[j] = inputSchema(cur.name)[i].name

C3_Witness ==
  /\ pc = "returned" /\ EnumOutside # {} /\ MissingRequired = {}
  /\ cur.name = "beeboo_approvals_list"
  /\ cur.args.status = JStr(<<"denied">>)

\* The current call failed beneath the dispatcher, judged from what went in
\* and what the backend did: invalid arguments, no configured key, a network
\* error, a timeout, a response that is not 2xx, or a 2xx body with no approval
\* for approval_check to read
Invalid ==
  /\ cur.name \in ToolKeySet
  /\ \E i \in 1..Len(inputSchema(cur.name)) :
       LET p == inputSchema(cur.name)[i]
           v == Arg(cur.args, p.name)
       IN  \/ v = Undefined /\ ~p.optional
           \/ v # Undefined /\ p.kind \in {"string", "enum"} /\ v.t # "str"
           \/ v # Undefined /\ p.kind = "enum" /\ v.t = "str" /\ v.v \notin p.values
           \/ v # Undefined /\ p.kind = "array" /\ v.t # "arr"

NullApproval ==
  /\ cur.name = "beeboo_approval_check"
  /\ ans.k = "response" /\ ans.status \in 200..299
  /\ ans.data \in {JNull, JObj([data |-> JNull])}

FailedBeneath ==
  /\ pc = "returned"
  /\ \/ Invalid
     \/ ~apiKey
     \/ ans.k \in {"error", "timeout"}
     \/ ans.k = "response" /\ ans.status \notin 200..299
     \/ NullApproval

\* C4: whatever fails beneath the dispatcher, the call returns a response: one
\* text block whose text is "Error: " followed by the error's message, isError
\* true, and nothing else; a call that has returned always has a response.
C4_FailuresBecomeErrorResponses ==
  /\ pc = "returned" => resp # NoResp /\ Len(resp.content) = 1
  /\ FailedBeneath \/ (pc = "returned" /\ hres.k = "throw") =>
       /\ hres.k = "throw"
       /\ DOMAIN resp = {"content", "isError"}
       /\ resp.isError = TRUE
       /\ Len(resp.content) = 1
       /\ resp.content[1].type = "text"
       /\ resp.content[1].text = <<"Error: ">> \o hres.message

C4_Witness ==
  /\ FailedBeneath /\ NullApproval /\ apiKey /\ ~Invalid
  /\ IsErrorResponse(resp)
  /\ resp.content[1].text = <<"Error: ">> \o TypeErrorMessage

\* C5 as stated: on success the response carries result.text in one text block
\* and structuredContent equal to result.data (omitted when data is absent),
\* for every tool.
C5_StructuredContentIsData ==
  pc = "returned" /\ hres.k = "ok" =>
    /\ resp.content = <<[type |-> "text", text |-> hres.text]>>
    /\ resp.structuredContent = hres.data
    /\ "isError" \notin DOMAIN resp

\* The key a list-style tool's callback puts result.data under
DataKey ==
  CASE cur.name = "beeboo_knowledge_search" -> "results"
    [] cur.name = "beeboo_knowledge_list" -> "entries"
    [] cur.name = "beeboo_approvals_list" -> "approvals"
    [] cur.name = "beeboo_requests_list" -> "requests"
    [] OTHER -> ""

\* C5 (amended): on success the response carries result.text in one text block
\* and no isError; structuredContent is result.data itself for knowledge_add,
\* approval_request, approval_check and request_create, is result.data under
\* the key entries, approvals or requests for the three list tools, and for
\* knowledge_search is result.data under the key results, omitted when the
\* search returned no data.
C5_StructuredContentPerTool ==
  pc = "returned" /\ hres.k = "ok" =>
    /\ resp.content = <<[type |-> "text", text |-> hres.text]>>
    /\ "isError" \notin DOMAIN resp
    /\ IF DataKey = "" THEN resp.structuredContent = hres.data
       ELSE IF cur.name = "beeboo_knowledge_search" /\ hres.data = Undefined
         THEN resp.structuredContent = Undefined
       ELSE /\ resp.structuredContent.t = "obj"
            /\ DOMAIN resp.structuredContent.v = {DataKey}
            /\ resp.structuredContent.v[DataKey] = hres.data

C5_Witness ==
  /\ pc = "returned" /\ hres.k = "ok"
  /\ cur.name = "beeboo_approvals_list"
  /\ hres.data.t = "arr" /\ Len(hres.data.v) = 2
  /\ resp.structuredContent = JObj([approvals |-> hres.data])

\* C6: approval_check against a 404 fails with "Approval not found: <id>"
\* whatever the body says; against any other status that is not 2xx it fails
\* with a "Failed to check approval: ..." message, which is a different one.
C6_NotFoundIsDistinct ==
  /\ pc = "returned" /\ cur.name = "beeboo_approval_check"
  /\ ans.k = "response" /\ ans.status \notin 200..299
  =>
    LET notFound == <<"Approval not found: ">> \o cur.args.id.v
    IN  /\ hres.k = "throw"
        /\ resp.content[1].text = <<"Error: ">> \o hres.message
        /\ ans.status = 404 => hres.message = notFound
        /\ ans.status # 404 =>
             /\ hres.message[1] = "Failed to check approval: "
             /\ hres.message # notFound

C6_Witness ==
  /\ pc = "returned" /\ cur.name = "beeboo_approval_check"
  /\ ans.k = "response" /\ ans.status = 404
  /\ ans.data = JObj([error |-> JObj([message |-> JStr(<<"m", "s", "g">>)])])
  /\ hres.message = <<"Approval not found: ", "a", "b", "c", "1", "2", "3">>

Contains(text, token) == \E j \in 1..Len(text) : text[j] = token

\* C7: knowledge_list against a 2xx answer that is an empty array, bare or
\* wrapped in {data: []}, returns a response that is no error, whose text
\* contains "No knowledge entries found." and whose structuredContent.entries
\* is an empty sequence.
C7_EmptyKnowledgeList ==
  /\ pc = "returned" /\ cur.name = "beeboo_knowledge_list"
  /\ ans.k = "response" /\ ans.status \in 200..299
  /\ ans.data \in {JArr(<<>>), JObj([data |-> JArr(<<>>)])}
  =>
    /\ ~IsErrorResponse(resp)
    /\ Contains(resp.content[1].text, "No knowledge entries found.")
    /\ resp.structuredContent.t = "obj"
    /\ resp.structuredContent.v.entries = JArr(<<>>)

C7_Witness ==
  /\ pc = "returned" /\ cur.name = "beeboo_knowledge_list"
  /\ ans.k = "response" /\ ans.status = 299
  /\ ans.data = JObj([data |-> JArr(<<>>)])
  /\ resp.structuredContent = JObj([entries |-> JArr(<<>>)])

\* The list of results in the answer to the current knowledge_search call: the
\* body, its data or its results when that is an array; NoList otherwise
NoList == [t |-> "none"]
SearchList ==
  IF ~(pc = "returned" /\ cur.name = "beeboo_knowledge_search"
       /\ ans.k = "response" /\ ans.status \in 200..299)
    THEN NoList
  ELSE LET body == ans.data
           inner == IF body.t = "obj" /\ "data" \in DOMAIN body.v
                      THEN body.v.data ELSE body
       IN  IF inner.t = "arr" THEN inner
           ELSE IF inner.t = "obj" /\ "results" \in DOMAIN inner.v
                   /\ inner.v.results.t = "arr"
             THEN inner.v.results
           ELSE NoList

\* Every result of the list is an object
AllObjects(list) == \A i \in 1..Len(list.v) : list.v[i].t = "obj"

\* The positions of a token in a text, and the k-th of them
Positions(text, token) == {j \in 1..Len(text) : text[j] = token}
Nth(P, k) == CHOOSE j \in P : Cardinality({i \in P : i < j}) = k - 1

IsPrefix(pre, text) == Len(pre) <= Len(text) /\ SubSeq(text, 1, Len(pre)) = pre

\* The title the summary shows for a result
ShownTitle(r) ==
  IF "title" \in DOMAIN r.v /\ r.v.title.v # <<>> THEN r.v.title.v
  ELSE IF "key" \in DOMAIN r.v /\ r.v.key.v # <<>> THEN r.v.key.v
  ELSE <<"(untitled)">>

\* C8: knowledge_search(q) against a backend that returns N >= 1 results
\* (objects) gives a text that begins 'Found N result(s) for "q":', followed by
\* exactly N items numbered 1..N, the k-th showing the k-th result of the
\* backend, and gives the result list unchanged as structured data; with N = 0
\* it gives the "No results found" text and no data.
C8_SearchEnumeratesInOrder ==
  SearchList # NoList /\ AllObjects(SearchList) =>
    LET N == Len(SearchList.v)
        q == cur.args.query.v
        text == resp.content[1].text
        header == <<"Found ", ToString(N), " result(s) for \"">> \o q \o <<"\":\n\n">>
        marks == Positions(text, ". **")
    IN  /\ ~IsErrorResponse(resp)
        /\ N = 0 => /\ text = <<"No results found for \"">> \o q \o <<"\"">>
                    /\ hres.data = Undefined
                    /\ resp.structuredContent = Undefined
        /\ N >= 1 =>
             /\ IsPrefix(header, text)
             /\ Cardinality(marks) = N
             /\ Nth(marks, 1) = Len(header) + 2
             /\ \A k \in 1..N :
                  /\ text[Nth(marks, k) - 1] = ToString(k)
                  /\ IsPrefix(<<". **">> \o ShownTitle(SearchList.v[k]) \o <<"**">>,
                              SubSeq(text, Nth(marks, k), Len(text)))
             /\ hres.data = SearchList
             /\ resp.structuredContent = JObj([results |-> SearchList])

C8_Witness ==
  /\ SearchList # NoList /\ AllObjects(SearchList)
  /\ Len(SearchList.v) = 2
  /\ SearchList.v[1] # SearchList.v[2]
  /\ ShownTitle(SearchList.v[1]) # ShownTitle(SearchList.v[2])
  /\ IsPrefix(<<"Found ", "2", " result(s) for \"", "d", "e", "p", "\":\n\n", "1", ". **">>,
              resp.content[1].text)

\* The content the summary shows for its k-th item: what follows the k-th
\* "\n   " up to the blank line that ends the item
ShownContent(text, k) ==
  LET from == Nth(Positions(text, "\n   "), k) + 1
      ends == {j \in Positions(text, "\n\n") : j >= from}
      to == IF ends = {} THEN Len(text) ELSE (CHOOSE j \in ends : \A i \in ends : j <= i) - 1
  IN  SubSeq(text, from, to)

\* C9: in the search summary a result whose content has more than 200
\* characters is shown as its first 200 characters followed by "...", and a
\* result whose content has 200 characters or fewer is shown unchanged.
C9_ContentCutAt200 ==
  SearchList # NoList /\ AllObjects(SearchList) /\ Len(SearchList.v) >= 1 =>
    \A k \in 1..Len(SearchList.v) :
      LET r == SearchList.v[k]
          c == IF "content" \in DOMAIN r.v THEN r.v.content.v ELSE <<>>
          shown == ShownContent(resp.content[1].text, k)
      IN  IF Len(c) > 200
            THEN shown = [i \in 1..201 |-> IF i <= 200 THEN c[i] ELSE "..."]
            ELSE shown = c

C9_Witness ==
  /\ SearchList # NoList /\ AllObjects(SearchList) /\ Len(SearchList.v) = 2
  /\ \A k \in 1..2 : "content" \in DOMAIN SearchList.v[k].v
  /\ Len(SearchList.v[1].v.content.v) = 200
  /\ Len(SearchList.v[2].v.content.v) = 203
  /\ Len(ShownContent(resp.content[1].text, 1)) = 200
  /\ Len(ShownContent(resp.content[1].text, 2)) = 201
  /\ ShownContent(resp.content[1].text, 2)[201] = "..."

----------------------------------------------------------------------------
(* The key derivation of knowledge_add, over every short title *)

SlugAlphabet == {"D", "e", "0", "!", " ", "-"}
ExampleTitle == <<"D", "e", "p", "l", "o", "y", " ", "H", "o", "t", "f", "i", "x", "!", "!">>
ExampleKey == <<"d", "e", "p", "l", "o", "y", "-", "h", "o", "t", "f", "i", "x">>
Titles == SeqsUpTo(SlugAlphabet, MaxTitleLen) \cup {ExampleTitle}

\* tools/call beeboo_knowledge_add with a title, some content and no tags
AddEntry ==
  /\ pc = "idle"
  /\ \E title \in Titles :
       CallTool("beeboo_knowledge_add",
                [title |-> JStr(title), content |-> Text1, tags |-> Undefined])

SlugNext ==
  \/ StartServer
  \/ CreateServer
  \/ AddEntry
  \/ RequestTimeout
  \/ Deliver

SlugSpec == Init /\ [][SlugNext]_vars

RECURSIVE Words(_, _)
\* The maximal runs of characters of [a-z0-9] in s, in order; w is the run
\* being read
Words(s, w) ==
  IF s = <<>> THEN (IF w = <<>> THEN <<>> ELSE <<w>>)
  ELSE IF IsSlugChar(s[1]) THEN Words(Tail(s), Append(w, s[1]))
  ELSE (IF w = <<>> THEN <<>> ELSE <<w>>) \o Words(Tail(s), <<>>)

\* The key in the body of the request knowledge_add sent
SentKey == req.body.v.key.v
AddSent == pc = "inflight" /\ cur.name = "beeboo_knowledge_add"

\* C10: the key knowledge_add derives from a title is the lower-cased title
\* with every maximal run of characters outside [a-z0-9] replaced by one "-"
\* and no "-" at either end: it has only characters of [a-z0-9-], never two
\* "-" in a row, no "-" first or last, deriving a key from it gives it back,
\* and "Deploy Hotfix!!" gives "deploy-hotfix".
C10_SlugKey ==
  AddSent =>
    LET title == cur.args.title.v
        key == SentKey
    IN  /\ key = JoinSeq(Words(toLowerCase(title), <<>>), <<"-">>)
        /\ \A i \in 1..Len(key) : IsSlugChar(key[i]) \/ key[i] = "-"
        /\ \A i \in 1..Len(key) - 1 : ~(key[i] = "-" /\ key[i + 1] = "-")
        /\ key # <<>> => key[1] # "-" /\ key[Len(key)] # "-"
        /\ SlugKey(key) = key
        /\ title = ExampleTitle => key = ExampleKey

C10_Witness ==
  /\ AddSent /\ cur.args.title.v = ExampleTitle /\ SentKey = ExampleKey

\* Titles that exercise the derivation: a run at each end and in the middle
C10_WitnessRuns ==
  /\ AddSent /\ cur.args.title.v = <<"!", "D", " ", "-">> /\ SentKey = <<"d">>

----------------------------------------------------------------------------
(* The list tools against a backend that answers a request the same way twice *)

ListTools3 == {"beeboo_knowledge_list", "beeboo_approvals_list", "beeboo_requests_list"}
IdemNames == ListTools3 \cup {"beeboo_approval_request"}

\* Valid arguments of the list tools, and of one tool that is not a list tool
IdemArgs(name) ==
  CASE name = "beeboo_knowledge_list" -> {[k \in {} |-> Undefined], [extra |-> JNum(1)]}
    [] name = "beeboo_approvals_list" ->
         {[status |-> st] : st \in {Undefined, JStr(<<"pending">>), JStr(<<"approved">>)}}
    [] name = "beeboo_requests_list" ->
         {[status |-> st] : st \in {Undefined, JStr(<<"open">>)}}
    [] OTHER -> {[title |-> Title1, description |-> Text1]}

\* The calls one of which is singled out: each list tool with each argument
Probes ==
  UNION {{[name |-> n, args |-> a, via |-> "callback"] : a \in IdemArgs(n)} :
           n \in ListTools3}

IdemItems(name) == {x \in ItemsOf(name) : Get(x, "title") = JStr(<<"T">>)}

\* The answers of the backend: a list of items, or a failure
IdemAnswers(name) ==
  {Answer(200, TRUE, JArr(a)) : a \in SeqsUpTo(IdemItems(name), MaxItems)}
    \cup {Answer(500, TRUE, JObj([error |-> JObj([message |-> JStr(<<"m", "s", "g">>)])]))}

\* The backend has not changed: the request the call singled out sent first
\* is settled the way it was settled then
Consistent(settled) == idem.seen = 0 \/ req # idem.req \/ settled = idem.settled

IdemInit == Boot /\ \E p \in Probes : idem = [NoProbe EXCEPT !.probe = p]

IdemCall ==
  /\ pc = "idle"
  /\ \E name \in IdemNames : \E raw \in IdemArgs(name) : CallTool(name, raw)

IdemAnswer ==
  /\ pc = "inflight"
  /\ net.phase = "headers"
  /\ \E answer \in IdemAnswers(cur.name) :
       /\ Consistent([k |-> "response", status |-> answer.status,
                      data |-> ParseBody(answer)])
       /\ ResponseEnd(answer)

IdemFails ==
  /\ pc = "inflight"
  /\ \E m \in ErrorTexts : Consistent([k |-> "error", message |-> m]) /\ RequestError(m)

IdemTimeout ==
  /\ pc = "inflight"
  /\ Consistent([k |-> "timeout"])
  /\ RequestTimeout

IdemNext ==
  \/ StartServer
  \/ CreateServer
  \/ IdemCall
  \/ ResponseHeaders
  \/ IdemAnswer
  \/ IdemFails
  \/ IdemTimeout
  \/ DestroyError
  \/ Deliver

IdemSpec == IdemInit /\ [][IdemNext]_vars

StructOf(r) == IF "structuredContent" \in DOMAIN r THEN r.structuredContent ELSE Undefined

----------------------------------------------------------------------------
(* Configuration and transport *)

\* C12: with no API key nothing reaches the network: a server started by
\* startServer() exits before it serves any protocol call, no HTTP request is
\* ever opened, and a call whose handler reaches the transport fails with
\* "BEEBOO_API_KEY environment variable is required" with no request opened.
C12_NoKeyFailsFast ==
  /\ server = "exited" => ~apiKey /\ ncall = 0 /\ nreq = 0 /\ pc = "idle"
  /\ ~apiKey => nreq = 0 /\ req = NoReq /\ net = NoNet /\ pc # "inflight"
  /\ (~apiKey /\ pc = "returned" /\ ran) =>
        /\ hres = Throw(ConfigErrorMessage)
        /\ ans = NoAns
        /\ IsErrorResponse(resp)

C12_Witness ==
  /\ ~apiKey /\ pc = "returned" /\ ran /\ ncall = 2
  /\ hres = Throw(ConfigErrorMessage) /\ nreq = 0

\* The response whose status is not 2xx that the current call's request got
FailedResponse == pc = "returned" /\ ans.k = "response" /\ ~isOk(ans)

\* C13: for every response, whatever its body, getError gives a string that
\* is not empty: body.error.message when it is there and not empty, else
\* body.error as a string, else the body when it is a string, else
\* "HTTP <status>".
C13_GetErrorNonEmpty ==
  FailedResponse =>
    LET e == getError(ans)
        err == Get(ans.data, "error")
    IN  /\ e.t = "str"
        /\ e.v # <<>>
        /\ e = IF Truthy(Get(err, "message")) THEN Get(err, "message")
               ELSE IF Truthy(err)
                      THEN (IF err.t = "str" THEN err ELSE JStr(JsonStringify(err)))
               ELSE IF ans.data.t = "str" THEN ans.data
               ELSE JStr(<<"HTTP ", ToString(ans.status)>>)

----------------------------------------------------------------------------
(* executeTool called by name, as the module exports it *)

\* Names a caller may pass: the registry's keys, names no object has, and
\* names every object inherits
DirectNames == ToolKeySet \cup {"nope", ""} \cup InheritedKeys

DirectArgs(name) ==
  IF name \in ToolKeySet THEN ArgSets(name)
  ELSE {[k \in {} |-> Undefined], [query |-> Query1]}

\* An importing module calls executeTool(name, args) itself
ExecuteDirect ==
  /\ pc = "idle"
  /\ \E name \in DirectNames : \E raw \in DirectArgs(name) : Execute("direct", name, raw)

DirectNext ==
  \/ ExecuteDirect
  \/ ResponseHeaders
  \/ BackendAnswers
  \/ ConnectionFails
  \/ RequestTimeout
  \/ DestroyError
  \/ BodyCutOff
  \/ Deliver

DirectSpec == Init /\ [][DirectNext]_vars

\* C14: for every name that is not one of the registry's own keys, "constructor"
\* and "toString" among them, executeTool fails with "Unknown tool: <name>", and
\* does so before any validation, handler or request.
C14_UnknownToolFails ==
  (pc = "returned" /\ cur.via = "direct" /\ cur.name \notin ToolKeySet) =>
    /\ hres = Throw(<<"Unknown tool: ", cur.name>>)
    /\ ~ran
    /\ req = NoReq

----------------------------------------------------------------------------
(* Requests per call *)

\* The current call was accepted and its arguments passed validation
PassedValidation == pc \in {"inflight", "returned"} /\ ran

\* The current call failed at the lookup or at validation
FailedValidation == pc = "returned" /\ ~ran

----------------------------------------------------------------------------
(* Timeouts and settlement *)

\* C16: a request that times out is aborted and its call ends as the error
\* "Request timed out (30s)", an isError response; whatever the order of the
\* request's 'timeout', 'error' and 'end' events, the call settles exactly
\* once, and the 'error' event that aborting raises, a second reject(), leaves
\* the timeout outcome in place.
C16_TimeoutSettlesOnce ==
  /\ net.taken <= 1
  /\ pc = "inflight" => net.taken = 0 /\ net.calls = 0
  /\ (pc = "returned" /\ req # NoReq) => net.taken = 1 /\ net.calls >= 1
  /\ ans.k = "timeout" =>
        /\ net.phase \in {"destroyed", "closed"}
        /\ hres = Throw(<<"Request timed out (30s)">>)
        /\ cur.via = "callback" =>
              resp = [content |-> <<TextBlock(<<"Error: ", "Request timed out (30s)">>)>>,
                      isError |-> TRUE]
  /\ net.calls = 2 => ans.k = "timeout" /\ net.phase = "closed"

C16_Witness ==
  /\ pc = "returned" /\ ans.k = "timeout" /\ net.calls = 2 /\ net.taken = 1
  /\ IsErrorResponse(resp)

\* What can happen on the connection of the request in flight
Connection ==
  \/ ResponseHeaders
  \/ BackendAnswers
  \/ ConnectionFails
  \/ RequestTimeout
  \/ BodyCutOff

\* The event loop runs every listener whose event has been raised, and a
\* connection that can still raise an event raises one
LiveSpec == Spec /\ WF_vars(Connection) /\ WF_vars(DestroyError) /\ WF_vars(Deliver)

\* C17: every tools/call that was accepted and is in flight gets its
\* response: whether the response completes, the connection fails, the body is
\* cut off after the headers or the timeout fires, the transport call settles
\* and the call returns; none stays pending for ever.
C17_EveryCallSettles == (pc = "inflight") ~> (pc = "returned")

----------------------------------------------------------------------------
(* The status filter of the list tools *)

\* The current call is a tools/call of approvals_list or requests_list
StatusCall ==
  /\ pc \in {"inflight", "returned"}
  /\ cur.via = "callback"
  /\ cur.name \in {"beeboo_approvals_list", "beeboo_requests_list"}

\* The status values the current call's tool declares
Declared ==
  {JStr(v) : v \in IF cur.name = "beeboo_approvals_list" THEN ApprovalStatuses
                                                         ELSE RequestStatuses}

\* The request of the current call has a status parameter, with value v
SendsStatus(v) == req.params = << <<"status", v>> >>

\* C18 as stated: the request of approvals_list and requests_list carries a
\* status parameter exactly when the call gave a status that is not empty; a
\* call with no status or with the empty string is not rejected and is sent
\* with no status parameter; a declared status is sent as it was given.
C18_EmptyStatusUnfiltered ==
  StatusCall =>
    LET status == cur.args.status
    IN  /\ status \in {Undefined, JStr(<<>>)} =>
              /\ ran
              /\ apiKey => req # NoReq /\ req.params = <<>>
        /\ status \in Declared =>
              /\ ran
              /\ apiKey => req # NoReq /\ SendsStatus(status.v)
        /\ req # NoReq => (req.params # <<>> <=> status \notin {Undefined, JStr(<<>>)})

\* C18, amended: a call with no status is not rejected and is sent with no
\* status parameter; a call with a declared status is sent with that status,
\* unchanged; a call whose status is the empty string is rejected by
\* validation like any other undeclared value, and no request is sent. So a
\* request carries a status parameter exactly when the call gave a declared
\* status.
C18_StatusFilter ==
  StatusCall =>
    LET status == cur.args.status
    IN  /\ status = Undefined =>
              /\ ran
              /\ apiKey => req # NoReq /\ req.params = <<>>
        /\ status \in Declared =>
              /\ ran
              /\ apiKey => req # NoReq /\ SendsStatus(status.v)
        /\ status \notin Declared \cup {Undefined} =>
              /\ ~ran /\ req = NoReq
              /\ pc = "returned" /\ IsErrorResponse(resp)
        /\ req # NoReq => (req.params # <<>> <=> status \in Declared)

C18_Witness ==
  /\ StatusCall /\ cur.name = "beeboo_approvals_list"
  /\ cur.args.status = JStr(<<"rejected">>)
  /\ pc = "inflight" /\ SendsStatus(<<"rejected">>)

\* An empty status is turned away
C18_WitnessEmpty ==
  /\ StatusCall /\ cur.args.status = JStr(<<>>) /\ pc = "returned" /\ ~ran

----------------------------------------------------------------------------
(* The icons of approvals *)

Icons == {"(ok)", "(no)", "(wait)"}

\* Position p of a text comes after an icon
HasIconBefore(text, p) == \E q \in 1..p : text[q] \in Icons

\* The icon of the line or message position p of a text is in: the last one
\* before p
IconBefore(text, p) ==
  LET q == CHOOSE q \in 1..p :
             text[q] \in Icons /\ \A r \in (q + 1)..p : text[r] \notin Icons
  IN  text[q]

\* The icon shown for an approval that is pending
PendingIcon == ApprovalIcon(JObj([status |-> JStr(<<"pending">>)]))

\* C19: in the text of approvals_list and approval_check the icon of an
\* approval depends on its status and tells pending, approved and rejected
\* apart: wherever the status shown is "rejected" the icon is the one for
\* rejection, never the icon of a pending approval, and an approved one has an
\* icon of its own.
C19_RejectedHasOwnIcon ==
  (/\ pc = "returned"
   /\ cur.name \in {"beeboo_approvals_list", "beeboo_approval_check"}
   /\ hres.k = "ok") =>
    \A p \in 1..Len(hres.text) :
      HasIconBefore(hres.text, p) =>
        /\ hres.text[p] = "pending" => IconBefore(hres.text, p) = PendingIcon
        /\ hres.text[p] = "approved" => IconBefore(hres.text, p) = "(ok)"
        /\ hres.text[p] = "rejected" =>
              /\ IconBefore(hres.text, p) # PendingIcon
              /\ IconBefore(hres.text, p) = "(no)"

====
